---- MODULE Spec2Model ----
(***************************************************************************)
(* ShopVault: the inventory ledger of a product (quantity, reserved,       *)
(* available, status) and the calls that mutate it.  Every await of the    *)
(* JavaScript source is a suspension point, so a call is a sequence of     *)
(* steps and several calls interleave at their awaits; a single            *)
(* findOneAndUpdate / updateOne / insertOne is one atomic step.            *)
(***************************************************************************)
EXTENDS Integers, Sequences, FiniteSets, Bags, TLC

\* ------------------------------------------------------------------ bounds
MaxQty == 1          \* largest quantity of a call or of a line item
MaxStock == 2        \* largest initial stock of a product
MaxCalls == 5        \* calls issued in one behaviour

\* ------------------------------------------------------------- identifiers
ProductIds == {"p1"}            \* ids that resolve to a product document
MissingId == "p0"               \* a well-formed id that resolves to nothing
AnyProductId == ProductIds \cup {MissingId}
CallIds == {1, 2}               \* clients, each with one call in flight at most

\* src/src/config/constants.js PRODUCT_STATUS
PRODUCT_STATUS == {"AVAILABLE", "OUT_OF_STOCK", "DISCONTINUED", "COMING_SOON"}

\* The two shapes collection.findOneAndUpdate resolves to: the document
\* itself (or null), or a wrapper {value, ok, lastErrorObject}.  The source
\* reads the result both ways, and the installed driver decides.
DriverShapes == {"document", "modifyResult"}

\* src/src/config/constants.js ORDER_STATUS
ORDER_STATUS ==
  {"PENDING", "CONFIRMED", "PROCESSING", "SHIPPED", "DELIVERED", "CANCELLED",
   "REFUNDED"}


VARIABLES
  driver,        \* the shape findOneAndUpdate resolves to, fixed for a run
  products,      \* the products collection: id -> document
  orders,        \* the orders collection, in insertion order
  transactions,  \* the inventory_transactions collection, a bag of records
  userOrders,    \* the user's orderStats.totalOrders
  calls,         \* per client: the call it is executing or has last executed
  issued,        \* number of calls issued so far
  ledger         \* per product: what each ledger operation has applied so far

vars == <<driver, products, orders, transactions, userOrders, calls, issued, ledger>>

\* --------------------------------------------------------- product document
\* the price of a product when it is created
ProductPrice == 300

\* ProductService.createProduct: reserved 0, available = quantity,
\* status from available, salesStats at zero.
NewProduct(q) ==
  [quantity |-> q, reserved |-> 0, available |-> q,
   status |-> IF q > 0 THEN "AVAILABLE" ELSE "OUT_OF_STOCK",
   price |-> ProductPrice, totalSold |-> 0, revenue |-> 0]

NoDoc ==
  [quantity |-> 0, reserved |-> 0, available |-> 0, status |-> "NONE",
   price |-> 0, totalSold |-> 0, revenue |-> 0]

\* BaseRepository.findById: the document, or null
FindById(id) == IF id \in ProductIds THEN products[id] ELSE NoDoc

\* ------------------------------------------- the three single-document updates
\* ProductRepository.updateInventory: the aggregation-pipeline $set
UpdateInventoryStatusLt(doc, quantityChange) ==
  [doc EXCEPT !.quantity = doc.quantity + quantityChange,
              !.available = (doc.quantity + quantityChange) - doc.reserved,
              !.status = IF (doc.quantity + quantityChange) - doc.reserved < 0
                         THEN "OUT_OF_STOCK" ELSE "AVAILABLE"]

UpdateInventoryDoc(doc, quantityChange) ==
  [doc EXCEPT !.quantity = doc.quantity + quantityChange,
              !.available = (doc.quantity + quantityChange) - doc.reserved,
              !.status = IF (doc.quantity + quantityChange) - doc.reserved <= 0
                         THEN "OUT_OF_STOCK" ELSE "AVAILABLE"]

\* ProductRepository.reserveInventory: the filter of the conditional update
ReserveFilterAlways(doc, quantity) == TRUE

ReserveFilter(doc, quantity) == doc.available >= quantity

\* ProductRepository.reserveInventory: the $inc of the conditional update
ReserveDocNoAvailable(doc, quantity) ==
  [doc EXCEPT !.reserved = doc.reserved + quantity]

ReserveDoc(doc, quantity) ==
  [doc EXCEPT !.reserved = doc.reserved + quantity,
              !.available = doc.available - quantity]

\* ProductRepository.releaseInventory: the unconditional $inc
ReleaseDocNoAvailable(doc, quantity) ==
  [doc EXCEPT !.reserved = doc.reserved - quantity]

ReleaseDoc(doc, quantity) ==
  [doc EXCEPT !.reserved = doc.reserved - quantity,
              !.available = doc.available + quantity]

\* ------------------------------------------------ findOneAndUpdate's result
\* What `result` is after findOneAndUpdate, given whether a document matched.
\*   isNull   : result itself is null        (`!result`, `result.value` throws)
\*   hasValue : result.value is a document   (`!result.value` is false)
FindOneAndUpdateResult(matched) ==
  IF driver = "document"
  THEN [isNull |-> ~matched, hasValue |-> FALSE]
  ELSE [isNull |-> FALSE, hasValue |-> matched]

\* ProductRepository.updateInventory lines 306-311: `if (!result) return null`
UpdateInventoryReturn(result) == IF result.isNull THEN "null" ELSE "ok"

\* ProductRepository.reserveInventory lines 355-359: `if (!result.value) throw`
ReserveReturnIgnoresValue(result) == "ok"

ReserveReturn(result) ==
  IF result.isNull THEN "TypeError"
  ELSE IF ~result.hasValue THEN "ReserveFailed"
  ELSE "ok"

\* ProductRepository.releaseInventory line 388: `return result.value`
ReleaseReturn(result) == IF result.isNull THEN "TypeError" ELSE "ok"

\* ------------------------------------------------------------------ inputs
Deltas == (-MaxQty..MaxQty) \ {0}
Quantities == 1..MaxQty

\* an optional input that the caller has left out (undefined in the source)
Absent == -1

\* `x || d` on an optional number: d when x is left out or is 0
OrDefault(x, d) == IF x = Absent \/ x = 0 THEN d ELSE x

\* a line item as OrderValidationSchema passes it on: price is optional,
\* discount defaults to 0.  Money is in units in which every amount below is
\* a multiple of 10, so that a tenth of a subtotal is exact.
Items == [productId : AnyProductId, quantity : Quantities,
          price : {Absent}, discount : {0}]

\* line items with a price and a discount of the caller's
ItemPrices == {Absent, 0, 200}
ItemDiscounts == {0, 100}
PricedItems == [productId : AnyProductId, quantity : Quantities,
                price : ItemPrices, discount : ItemDiscounts]

\* value.pricing: left out altogether, or with discount and shipping
\* (defaulting to 0) and an optional tax
NoPricing == [discount |-> Absent, tax |-> Absent, shipping |-> Absent]
Taxes == {Absent, 0, 50}
Pricings ==
  {NoPricing} \cup [discount : {0, 100}, tax : Taxes, shipping : {0, 70}]

\* carts of one or two line items (a product may appear in both); a cart
\* whose first product is missing fails at its first item whatever follows
Carts ==
  {<<i>> : i \in Items}
    \cup {<<i, j>> : i \in {x \in Items : x.productId \in ProductIds}, j \in Items}

PricedCarts ==
  {<<i>> : i \in PricedItems}
    \cup {<<i, j>> : i \in {x \in PricedItems : x.productId \in ProductIds},
                     j \in PricedItems}

\* the updateData of updateProduct: a status, a price, or an inventory object {quantity}; a field
\* that the caller has left out is "NONE" or Absent
NoUpdate == [status |-> "NONE", price |-> Absent, quantity |-> Absent]

\* -------------------------------------------------------------------- calls
\* op/pc: the method called and the await it is suspended at; productId and
\* quantity: the arguments of the ledger operation in progress; items/idx: a
\* cart and the index of the line item in progress; orderId/newStatus: the
\* arguments of a status update; order: the order as read by findById;
\* orderNumber: the generated order number; number: the user's totalOrders
\* as read; pricing: the pricing input of a createOrder; update/existing:
\* the updateData of an updateProduct and the product as the call's findById
\* read it.
NoOrder == [status |-> "NONE", items |-> <<>>]

IdleCall ==
  [op |-> "idle", pc |-> "idle", productId |-> MissingId, quantity |-> 0,
   result |-> "none", applied |-> FALSE,
   items |-> <<>>, idx |-> 0, orderId |-> 0, newStatus |-> "NONE",
   order |-> NoOrder, orderNumber |-> <<>>, number |-> 0,
   pricing |-> NoPricing, update |-> NoUpdate, existing |-> NoDoc]

NewCall(op) == [IdleCall EXCEPT !.op = op]

InFlight == {c \in CallIds : calls[c].pc \notin {"idle", "done"}}

\* A client issues its next call when its previous one has returned; of the
\* free clients the one with the lowest id takes the call.
CanStart(c) ==
  /\ c \notin InFlight
  /\ \A d \in CallIds : d < c => d \in InFlight
  /\ issued < MaxCalls

\* A call that has returned: what it was, what it returned or threw, and
\* whether its ledger update modified the document.
Finished(call, res, didApply) ==
  [IdleCall EXCEPT !.op = call.op, !.pc = "done", !.result = res,
                   !.applied = didApply, !.productId = call.productId,
                   !.quantity = call.quantity]

\* Client c moves on to `call`; what another client's call has returned was
\* delivered to its caller with the step that returned it.
SetCall(c, call) ==
  calls' = [d \in CallIds |->
              IF d = c THEN call
              ELSE IF calls[d].pc = "done" THEN IdleCall
              ELSE calls[d]]

\* What the directly called ledger operations have applied to each product's
\* document so far: the sum of the deltas of updateInventory and the sum of
\* the quantities of reserveInventory.
NoLedger == [adjusted |-> 0, reserved |-> 0]

Init ==
  /\ driver \in DriverShapes
  /\ products \in [ProductIds -> {NewProduct(q) : q \in 0..MaxStock}]
  /\ orders = <<>>
  /\ transactions = EmptyBag
  /\ userOrders = 0
  /\ calls = [c \in CallIds |-> IdleCall]
  /\ issued = 0
  /\ ledger = [p \in ProductIds |-> NoLedger]

\* ----------------------------------------------- the repository's updates
\* Each is one findOneAndUpdate: the collection after it, what the method
\* returns or throws, and whether a document was modified.
RepoUpdateInventory(productId, quantityChange) ==
  LET matched == productId \in ProductIds
      new == UpdateInventoryDoc(FindById(productId), quantityChange)
  IN [products |-> IF matched THEN [products EXCEPT ![productId] = new]
                   ELSE products,
      result |-> UpdateInventoryReturn(FindOneAndUpdateResult(matched)),
      applied |-> matched]

RepoReserveUpdate(productId, quantity) ==
  LET matched == productId \in ProductIds
                 /\ ReserveFilter(FindById(productId), quantity)
      new == ReserveDoc(FindById(productId), quantity)
  IN [products |-> IF matched THEN [products EXCEPT ![productId] = new]
                   ELSE products,
      result |-> ReserveReturn(FindOneAndUpdateResult(matched)),
      applied |-> matched]

RepoReleaseInventory(productId, quantity) ==
  LET matched == productId \in ProductIds
      new == ReleaseDoc(FindById(productId), quantity)
  IN [products |-> IF matched THEN [products EXCEPT ![productId] = new]
                   ELSE products,
      result |-> ReleaseReturn(FindOneAndUpdateResult(matched)),
      applied |-> matched]

\* ------------------------------------------- ProductRepository.updateInventory
\* One findOneAndUpdate by _id: the whole call is one step.
UpdateInventory(c, productId, quantityChange) ==
  /\ CanStart(c)
  /\ LET r == RepoUpdateInventory(productId, quantityChange)
     IN /\ products' = r.products
        /\ ledger' = IF r.applied
                     THEN [ledger EXCEPT ![productId].adjusted = @ + quantityChange]
                     ELSE ledger
        /\ SetCall(c, Finished([NewCall("updateInventory") EXCEPT
                                   !.productId = productId,
                                   !.quantity = quantityChange],
                                r.result, r.applied))
  /\ issued' = issued + 1
  /\ UNCHANGED <<driver, orders, transactions, userOrders>>

\* ------------------------------------------ ProductRepository.reserveInventory
\* lines 330-337: findById, then the two client-side checks
ReserveFindResult(productId, quantity) ==
  IF productId \notin ProductIds THEN "NotFound"
  ELSE IF FindById(productId).available < quantity THEN "InsufficientStock"
  ELSE "ok"

\* Where reserveInventory returns to: its caller's next step, or the end of
\* the call when it was called directly or has thrown.
AfterReserve(call, res, didApply) ==
  IF call.op = "createOrder" /\ res = "ok"
  THEN [call EXCEPT !.pc = "co_log", !.applied = didApply]
  ELSE Finished(call, res, didApply)

ReserveFindStep(call) ==
  IF ReserveFindResult(call.productId, call.quantity) = "ok"
  THEN [call EXCEPT !.pc = "reserve_update"]
  ELSE AfterReserve(call, ReserveFindResult(call.productId, call.quantity), FALSE)

\* a direct call, up to the result of its findById
ReserveInventory(c, productId, quantity) ==
  /\ CanStart(c)
  /\ SetCall(c, ReserveFindStep([NewCall("reserveInventory") EXCEPT
                                   !.productId = productId,
                                   !.quantity = quantity]))
  /\ issued' = issued + 1
  /\ UNCHANGED <<driver, products, orders, transactions, userOrders, ledger>>

\* the findById of a reserveInventory called by createOrder
ReserveFind(c) ==
  /\ calls[c].pc = "reserve_find"
  /\ SetCall(c, ReserveFindStep(calls[c]))
  /\ UNCHANGED <<driver, products, orders, transactions, userOrders, issued, ledger>>

\* lines 340-359: the conditional findOneAndUpdate and the check of its result
ReserveUpdate(c) ==
  /\ calls[c].pc = "reserve_update"
  /\ LET r == RepoReserveUpdate(calls[c].productId, calls[c].quantity)
     IN /\ products' = r.products
        /\ ledger' = IF r.applied /\ calls[c].op = "reserveInventory"
                     THEN [ledger EXCEPT ![calls[c].productId].reserved =
                                            @ + calls[c].quantity]
                     ELSE ledger
        /\ SetCall(c, AfterReserve(calls[c], r.result, r.applied))
  /\ UNCHANGED <<driver, orders, transactions, userOrders, issued>>

\* ------------------------------------------ ProductRepository.releaseInventory
\* One unconditional findOneAndUpdate by _id: the whole call is one step.
ReleaseInventory(c, productId, quantity) ==
  /\ CanStart(c)
  /\ LET r == RepoReleaseInventory(productId, quantity)
     IN /\ products' = r.products
        /\ SetCall(c, Finished([NewCall("releaseInventory") EXCEPT
                                   !.productId = productId,
                                   !.quantity = quantity],
                                r.result, r.applied))
  /\ issued' = issued + 1
  /\ UNCHANGED <<driver, orders, transactions, userOrders, ledger>>

\* ------------------------------------------------------- the ledger on its own
LedgerNext ==
  \/ \E c \in CallIds, p \in AnyProductId, d \in Deltas : UpdateInventory(c, p, d)
  \/ \E c \in CallIds, p \in AnyProductId, q \in Quantities : ReserveInventory(c, p, q)
  \/ \E c \in CallIds : ReserveUpdate(c)
  \/ \E c \in CallIds, p \in AnyProductId, q \in Quantities : ReleaseInventory(c, p, q)

LedgerSpec == Init /\ [][LedgerNext]_vars

\* concurrent reservations only
ReserveNext ==
  \/ \E c \in CallIds, p \in AnyProductId, q \in Quantities : ReserveInventory(c, p, q)
  \/ \E c \in CallIds : ReserveUpdate(c)

ReserveSpec == Init /\ [][ReserveNext]_vars

\* =========================================================== the services
OrderIds == 1..Len(orders)

\* the ids of the orders and one well-formed id that resolves to no order
AnyOrderId == 0..Len(orders)

\* BaseRepository.findById on the orders collection
FindOrder(orderId) ==
  IF orderId \in OrderIds
  THEN [status |-> orders[orderId].status, items |-> orders[orderId].items]
  ELSE NoOrder

\* InventoryTransactionRepository.logTransaction / ProductService.logInventoryTransaction
Transaction(productId, type, quantity, orderId) ==
  [productId |-> productId, type |-> type, quantity |-> quantity,
   orderId |-> orderId]

LogTransaction(record) == transactions (+) SetToBag({record})

\* ---------------------------------------------------- ProductService.addStock
\* lines 241-249: the validation, updateInventory and the check of its result
AddStock(c, productId, quantity) ==
  /\ CanStart(c)
  /\ LET call == [NewCall("addStock") EXCEPT !.productId = productId,
                                             !.quantity = quantity]
         r == RepoUpdateInventory(productId, quantity)
     IN IF quantity <= 0
        THEN /\ SetCall(c, Finished(call, "ValidationError", FALSE))
             /\ UNCHANGED products
        ELSE /\ products' = r.products
             /\ SetCall(c, IF r.result = "null"
                           THEN Finished(call, "NotFound", r.applied)
                           ELSE [call EXCEPT !.pc = "as_log", !.applied = r.applied])
  /\ issued' = issued + 1
  /\ UNCHANGED <<driver, orders, transactions, userOrders, ledger>>

\* lines 252-255: logInventoryTransaction, then the product is returned
AddStockLog(c) ==
  /\ calls[c].pc = "as_log"
  /\ transactions' = LogTransaction(
       Transaction(calls[c].productId, "PURCHASE", calls[c].quantity, 0))
  /\ SetCall(c, Finished(calls[c], "ok", calls[c].applied))
  /\ UNCHANGED <<driver, products, orders, userOrders, issued, ledger>>

\* ------------------------------------------------- ProductService.removeStock
\* lines 268-282: the validation, findById and the availability check
RemoveStock(c, productId, quantity) ==
  /\ CanStart(c)
  /\ LET call == [NewCall("removeStock") EXCEPT !.productId = productId,
                                                !.quantity = quantity]
     IN SetCall(c,
          IF quantity <= 0 THEN Finished(call, "ValidationError", FALSE)
          ELSE IF productId \notin ProductIds
          THEN Finished(call, "NotFound", FALSE)
          ELSE IF FindById(productId).available < quantity
          THEN Finished(call, "InsufficientStock", FALSE)
          ELSE [call EXCEPT !.pc = "rs_update"])
  /\ issued' = issued + 1
  /\ UNCHANGED <<driver, products, orders, transactions, userOrders, ledger>>

\* line 284: updateInventory(productId, -quantity)
RemoveStockUpdate(c) ==
  /\ calls[c].pc = "rs_update"
  /\ LET r == RepoUpdateInventory(calls[c].productId, -calls[c].quantity)
     IN /\ products' = r.products
        /\ SetCall(c, [calls[c] EXCEPT !.pc = "rs_log", !.applied = r.applied])
  /\ UNCHANGED <<driver, orders, transactions, userOrders, issued, ledger>>

\* lines 287-290
RemoveStockLog(c) ==
  /\ calls[c].pc = "rs_log"
  /\ transactions' = LogTransaction(
       Transaction(calls[c].productId, "SALE", calls[c].quantity, 0))
  /\ SetCall(c, Finished(calls[c], "ok", calls[c].applied))
  /\ UNCHANGED <<driver, products, orders, userOrders, issued, ledger>>

\* ------------------------------------------- ProductService.updateProduct
\* lines 131-134: findById; the product as read stays with the call
UpdateProduct(c, productId, updateData) ==
  /\ CanStart(c)
  /\ LET call == [NewCall("updateProduct") EXCEPT !.productId = productId,
                                                  !.update = updateData,
                                                  !.existing = FindById(productId)]
     IN SetCall(c, IF productId \notin ProductIds
                   THEN Finished(call, "NotFound", FALSE)
                   ELSE [call EXCEPT !.pc = "up_update"])
  /\ issued' = issued + 1
  /\ UNCHANGED <<driver, products, orders, transactions, userOrders, ledger>>

\* lines 154-163 and BaseRepository.updateById: with an inventory object in
\* updateData, available and status are computed from the product as read,
\* and the $set of `inventory` replaces the embedded document by
\* {quantity, available}: reserved is no longer in it, and reads as 0
UpdateProductDoc(doc, existing, updateData) ==
  LET available == OrDefault(updateData.quantity, existing.quantity)
                     - OrDefault(existing.reserved, 0)
      priced == IF updateData.price # Absent
                THEN [doc EXCEPT !.price = updateData.price] ELSE doc
  IN IF updateData.quantity # Absent
     THEN [priced EXCEPT !.quantity = updateData.quantity,
                         !.available = available,
                         !.reserved = 0,
                         !.status = IF available > 0
                                    THEN "AVAILABLE" ELSE "OUT_OF_STOCK"]
     ELSE IF updateData.status # "NONE"
     THEN [priced EXCEPT !.status = updateData.status]
     ELSE priced

\* line 174: updateById with $set: updateData
UpdateProductUpdateReprices(c) ==
  /\ calls[c].pc = "up_update"
  /\ products' = [products EXCEPT ![calls[c].productId] =
                     UpdateProductDoc(@, calls[c].existing, calls[c].update)]
  /\ orders' = [o \in OrderIds |->
                  [orders[o] EXCEPT !.items =
                     [i \in 1..Len(orders[o].items) |->
                        [orders[o].items[i] EXCEPT
                           !.price = products'[calls[c].productId].price]]]]
  /\ SetCall(c, Finished(calls[c], "ok", FALSE))
  /\ UNCHANGED <<driver, transactions, userOrders, issued, ledger>>

UpdateProductUpdate(c) ==
  /\ calls[c].pc = "up_update"
  /\ products' = [products EXCEPT ![calls[c].productId] =
                     UpdateProductDoc(@, calls[c].existing, calls[c].update)]
  /\ SetCall(c, Finished(calls[c], "ok", FALSE))
  /\ UNCHANGED <<driver, orders, transactions, userOrders, issued, ledger>>

\* ------------------------------------------------- OrderService.createOrder
\* lines 55-68: findById of the line item's product, the availability check,
\* then reserveInventory
CreateOrderFindStep(call) ==
  LET item == call.items[call.idx]
  IN IF item.productId \notin ProductIds
     THEN Finished(call, "NotFound", FALSE)
     ELSE IF FindById(item.productId).available < item.quantity
     THEN Finished(call, "InsufficientStock", FALSE)
     ELSE [call EXCEPT !.pc = "reserve_find", !.productId = item.productId,
                       !.quantity = item.quantity,
                       !.existing = FindById(item.productId)]

\* lines 33-47: the cart has passed validation and the user exists; then the
\* first line item
CreateOrder(c, cart, pricing) ==
  /\ CanStart(c)
  /\ SetCall(c, CreateOrderFindStep([NewCall("createOrder") EXCEPT
                                       !.items = cart, !.idx = 1,
                                       !.pricing = pricing]))
  /\ issued' = issued + 1
  /\ UNCHANGED <<driver, products, orders, transactions, userOrders, ledger>>

\* the later line items
CreateOrderFind(c) ==
  /\ calls[c].pc = "co_find"
  /\ SetCall(c, CreateOrderFindStep(calls[c]))
  /\ UNCHANGED <<driver, products, orders, transactions, userOrders, issued, ledger>>

\* lines 89-97: the record of a reservation, with the quantity of the
\* product as line 55 read it and that quantity less the item's
SaleTransactionUnsigned(productId, quantity, product) ==
  [productId |-> productId, type |-> "SALE", quantity |-> quantity,
   orderId |-> 0, quantityBefore |-> product.quantity,
   quantityAfter |-> product.quantity - quantity]

SaleTransaction(productId, quantity, product) ==
  [productId |-> productId, type |-> "SALE", quantity |-> -quantity,
   orderId |-> 0, quantityBefore |-> product.quantity,
   quantityAfter |-> product.quantity - quantity]

\* lines 89-98: the SALE record of the line item, then the next line item
CreateOrderLog(c) ==
  /\ calls[c].pc = "co_log"
  /\ transactions' = LogTransaction(
       SaleTransaction(calls[c].productId, calls[c].quantity, calls[c].existing))
  /\ SetCall(c, IF calls[c].idx < Len(calls[c].items)
                THEN [calls[c] EXCEPT !.pc = "co_find", !.idx = calls[c].idx + 1,
                                      !.existing = NoDoc]
                ELSE [calls[c] EXCEPT !.pc = "co_number", !.existing = NoDoc])
  /\ UNCHANGED <<driver, products, orders, userOrders, issued, ledger>>

\* String(n): the decimal digits of n
RECURSIVE DigitsOf(_)
DigitsOf(n) == IF n < 10 THEN <<n>> ELSE Append(DigitsOf(n \div 10), n % 10)

\* String.prototype.padStart: digits are put in front up to the target
\* length, and nothing is cut off
RECURSIVE PadStart(_, _, _)
PadStart(str, targetLength, padDigit) ==
  IF Len(str) >= targetLength THEN str
  ELSE PadStart(<<padDigit>> \o str, targetLength, padDigit)

\* OrderRepository.generateOrderNumber: the count of today's orders plus
\* one, as four digits at least; all the orders of a run are of one day, so
\* the date in front of the sequence is the same for all and left out
GenerateOrderNumberUnpadded == DigitsOf(Len(orders) + 1)

GenerateOrderNumber == PadStart(DigitsOf(Len(orders) + 1), 4, 0)

\* line 107
CreateOrderNumber(c) ==
  /\ calls[c].pc = "co_number"
  /\ SetCall(c, [calls[c] EXCEPT !.pc = "co_create",
                                 !.orderNumber = GenerateOrderNumber])
  /\ UNCHANGED <<driver, products, orders, transactions, userOrders, issued, ledger>>

\* lines 71-84: the line item as stored in the order
ProcessedItem(item) ==
  LET itemPrice == OrDefault(item.price, FindById(item.productId).price)
      itemDiscount == OrDefault(item.discount, 0)
  IN [productId |-> item.productId, quantity |-> item.quantity,
      price |-> itemPrice, discount |-> itemDiscount,
      subtotal |-> (itemPrice - itemDiscount) * item.quantity]

ProcessedItems(items) == [i \in 1..Len(items) |-> ProcessedItem(items[i])]

\* line 86: the subtotal of the order, accumulated over the line items
RECURSIVE SumSubtotals(_)
SumSubtotals(items) ==
  IF items = <<>> THEN 0 ELSE Head(items).subtotal + SumSubtotals(Tail(items))

\* lines 101-104: discount, tax (a tenth of the subtotal by default),
\* shipping and the total
OrderPricingTaxFree(items, pricing) ==
  LET subtotal == SumSubtotals(items)
      discount == OrDefault(pricing.discount, 0)
      tax == OrDefault(pricing.tax, subtotal \div 10)
      shipping == OrDefault(pricing.shipping, 0)
  IN [subtotal |-> subtotal, discount |-> discount, tax |-> tax,
      shipping |-> shipping,
      total |-> subtotal - discount + shipping]

OrderPricing(items, pricing) ==
  LET subtotal == SumSubtotals(items)
      discount == OrDefault(pricing.discount, 0)
      tax == OrDefault(pricing.tax, subtotal \div 10)
      shipping == OrDefault(pricing.shipping, 0)
  IN [subtotal |-> subtotal, discount |-> discount, tax |-> tax,
      shipping |-> shipping,
      total |-> subtotal - discount + tax + shipping]

\* lines 110-135: the order document
NewOrderNoHistory(orderNumber, items, pricing) ==
  [orderNumber |-> orderNumber, items |-> items, pricing |-> pricing,
   status |-> "PENDING",
   statusHistory |-> <<>>, completedAt |-> FALSE,
   cancelledAt |-> FALSE, shippedAt |-> FALSE]

NewOrder(orderNumber, items, pricing) ==
  [orderNumber |-> orderNumber, items |-> items, pricing |-> pricing,
   status |-> "PENDING",
   statusHistory |-> <<"PENDING">>, completedAt |-> FALSE,
   cancelledAt |-> FALSE, shippedAt |-> FALSE]

\* line 148: orderRepository.create, under the unique index on orderNumber
CreateOrderInsert(c) ==
  /\ calls[c].pc = "co_create"
  /\ IF \E o \in OrderIds : orders[o].orderNumber = calls[c].orderNumber
     THEN /\ SetCall(c, Finished(calls[c], "DuplicateError", calls[c].applied))
          /\ UNCHANGED orders
     ELSE /\ orders' = Append(orders,
                 NewOrder(calls[c].orderNumber, ProcessedItems(calls[c].items),
                          OrderPricing(ProcessedItems(calls[c].items),
                                       calls[c].pricing)))
          /\ SetCall(c, [calls[c] EXCEPT !.pc = "co_stats_find",
                                         !.orderId = Len(orders) + 1])
  /\ UNCHANGED <<driver, products, transactions, userOrders, issued, ledger>>

\* UserService.updateOrderStats lines 283-284: the user is read
CreateOrderStatsFind(c) ==
  /\ calls[c].pc = "co_stats_find"
  /\ SetCall(c, [calls[c] EXCEPT !.pc = "co_stats_update", !.number = userOrders])
  /\ UNCHANGED <<driver, products, orders, transactions, userOrders, issued, ledger>>

\* UserService.updateOrderStats lines 286-292: the totals computed from the
\* user as read are written back; createOrder returns the order
CreateOrderStatsUpdate(c) ==
  /\ calls[c].pc = "co_stats_update"
  /\ userOrders' = calls[c].number + 1
  /\ SetCall(c, Finished(calls[c], "ok", calls[c].applied))
  /\ UNCHANGED <<driver, products, orders, transactions, issued, ledger>>

\* ------------------------------------------- OrderService.updateOrderStatus
\* OrderService.validateStatusTransition
AllowedTransitionsSameStatus(currentStatus) ==
  CASE currentStatus = "PENDING" -> {"PENDING", "CONFIRMED", "CANCELLED"}
    [] currentStatus = "CONFIRMED" -> {"CONFIRMED", "PROCESSING", "CANCELLED"}
    [] currentStatus = "PROCESSING" -> {"PROCESSING", "SHIPPED", "CANCELLED"}
    [] currentStatus = "SHIPPED" -> {"SHIPPED", "DELIVERED", "CANCELLED"}
    [] currentStatus = "DELIVERED" -> {"DELIVERED", "REFUNDED"}
    [] OTHER -> {}

AllowedTransitionsSkip(currentStatus) ==
  CASE currentStatus = "PENDING" -> {"CONFIRMED", "DELIVERED", "CANCELLED"}
    [] currentStatus = "CONFIRMED" -> {"PROCESSING", "CANCELLED"}
    [] currentStatus = "PROCESSING" -> {"SHIPPED", "CANCELLED"}
    [] currentStatus = "SHIPPED" -> {"DELIVERED", "CANCELLED"}
    [] currentStatus = "DELIVERED" -> {"REFUNDED"}
    [] OTHER -> {}

AllowedTransitions(currentStatus) ==
  CASE currentStatus = "PENDING" -> {"CONFIRMED", "CANCELLED"}
    [] currentStatus = "CONFIRMED" -> {"PROCESSING", "CANCELLED"}
    [] currentStatus = "PROCESSING" -> {"SHIPPED", "CANCELLED"}
    [] currentStatus = "SHIPPED" -> {"DELIVERED", "CANCELLED"}
    [] currentStatus = "DELIVERED" -> {"REFUNDED"}
    [] OTHER -> {}

\* Where updateOrderStatus returns to: cancelOrder's next step, or the end of
\* the call when it was called directly or has thrown.
AfterUpdateOrderStatus(call, res) ==
  IF call.op = "cancelOrder" /\ res = "ok"
  THEN [call EXCEPT !.pc = "cancel_mark"]
  ELSE Finished(call, res, call.applied)

\* lines 205-211: findById and validateStatusTransition
UpdateOrderStatusFindStep(call) ==
  IF call.orderId \notin OrderIds
  THEN AfterUpdateOrderStatus(call, "NotFound")
  ELSE IF call.newStatus \notin AllowedTransitions(FindOrder(call.orderId).status)
  THEN AfterUpdateOrderStatus(call, "InvalidTransition")
  ELSE [call EXCEPT !.pc = "uos_update", !.order = FindOrder(call.orderId)]

\* a direct call, up to the result of its findById
UpdateOrderStatus(c, orderId, newStatus) ==
  /\ CanStart(c)
  /\ SetCall(c, UpdateOrderStatusFindStep([NewCall("updateOrderStatus") EXCEPT
                                             !.orderId = orderId,
                                             !.newStatus = newStatus]))
  /\ issued' = issued + 1
  /\ UNCHANGED <<driver, products, orders, transactions, userOrders, ledger>>

\* the findById of an updateOrderStatus called by cancelOrder
UpdateOrderStatusFind(c) ==
  /\ calls[c].pc = "uos_find"
  /\ SetCall(c, UpdateOrderStatusFindStep(calls[c]))
  /\ UNCHANGED <<driver, products, orders, transactions, userOrders, issued, ledger>>

\* OrderRepository.updateOrderStatus: $set status and $push statusHistory
SetOrderStatusNoHistory(order, newStatus) ==
  [order EXCEPT !.status = newStatus]

SetOrderStatus(order, newStatus) ==
  [order EXCEPT !.status = newStatus,
                !.statusHistory = Append(order.statusHistory, newStatus)]

\* lines 214-222: the repository update by _id; then handleStatusChange
\* switches on the new status
UpdateOrderStatusUpdate(c) ==
  /\ calls[c].pc = "uos_update"
  /\ orders' = [orders EXCEPT ![calls[c].orderId] =
                                 SetOrderStatus(@, calls[c].newStatus)]
  /\ SetCall(c,
       CASE calls[c].newStatus = "CANCELLED" ->
              [calls[c] EXCEPT !.pc = "hsc_release", !.idx = 1]
         [] calls[c].newStatus = "DELIVERED" ->
              [calls[c] EXCEPT !.pc = "hsc_completed"]
         [] calls[c].newStatus = "SHIPPED" ->
              [calls[c] EXCEPT !.pc = "hsc_shipped"]
         [] OTHER -> AfterUpdateOrderStatus(calls[c], "ok"))
  /\ UNCHANGED <<driver, products, transactions, userOrders, issued, ledger>>

\* handleStatusChange lines 262-266: releaseInventory of the line item; a
\* throw ends handleStatusChange in its catch, which only warns
HandleCancelledRelease(c) ==
  /\ calls[c].pc = "hsc_release"
  /\ LET item == calls[c].order.items[calls[c].idx]
         r == RepoReleaseInventory(item.productId, item.quantity)
     IN /\ products' = r.products
        /\ SetCall(c, IF r.result = "ok"
                      THEN [calls[c] EXCEPT !.pc = "hsc_log",
                                            !.productId = item.productId,
                                            !.quantity = item.quantity]
                      ELSE AfterUpdateOrderStatus(calls[c], "ok"))
  /\ UNCHANGED <<driver, orders, transactions, userOrders, issued, ledger>>

\* lines 269-276: the RETURN record of the line item, then the next line item
HandleCancelledLogStops(c) ==
  /\ calls[c].pc = "hsc_log"
  /\ transactions' = LogTransaction(
       Transaction(calls[c].productId, "RETURN", calls[c].quantity, calls[c].orderId))
  /\ SetCall(c, AfterUpdateOrderStatus(calls[c], "ok"))
  /\ UNCHANGED <<driver, products, orders, userOrders, issued, ledger>>

HandleCancelledLog(c) ==
  /\ calls[c].pc = "hsc_log"
  /\ transactions' = LogTransaction(
       Transaction(calls[c].productId, "RETURN", calls[c].quantity, calls[c].orderId))
  /\ SetCall(c, IF calls[c].idx < Len(calls[c].order.items)
                THEN [calls[c] EXCEPT !.pc = "hsc_release", !.idx = calls[c].idx + 1]
                ELSE AfterUpdateOrderStatus(calls[c], "ok"))
  /\ UNCHANGED <<driver, products, orders, userOrders, issued, ledger>>

\* lines 282-284: completedAt
HandleDeliveredCompleted(c) ==
  /\ calls[c].pc = "hsc_completed"
  /\ orders' = [orders EXCEPT ![calls[c].orderId].completedAt = TRUE]
  /\ SetCall(c, [calls[c] EXCEPT !.pc = "hsc_sales", !.idx = 1])
  /\ UNCHANGED <<driver, products, transactions, userOrders, issued, ledger>>

\* lines 287-293 and ProductRepository.updateSalesStats: $inc totalSold and
\* revenue
HandleDeliveredSalesNoRevenue(c) ==
  /\ calls[c].pc = "hsc_sales"
  /\ LET item == calls[c].order.items[calls[c].idx]
     IN products' = IF item.productId \in ProductIds
                    THEN [products EXCEPT
                            ![item.productId].totalSold = @ + item.quantity]
                    ELSE products
  /\ SetCall(c, IF calls[c].idx < Len(calls[c].order.items)
                THEN [calls[c] EXCEPT !.idx = calls[c].idx + 1]
                ELSE AfterUpdateOrderStatus(calls[c], "ok"))
  /\ UNCHANGED <<driver, orders, transactions, userOrders, issued, ledger>>

HandleDeliveredSales(c) ==
  /\ calls[c].pc = "hsc_sales"
  /\ LET item == calls[c].order.items[calls[c].idx]
     IN products' = IF item.productId \in ProductIds
                    THEN [products EXCEPT
                            ![item.productId].totalSold = @ + item.quantity,
                            ![item.productId].revenue = @ + item.subtotal]
                    ELSE products
  /\ SetCall(c, IF calls[c].idx < Len(calls[c].order.items)
                THEN [calls[c] EXCEPT !.idx = calls[c].idx + 1]
                ELSE AfterUpdateOrderStatus(calls[c], "ok"))
  /\ UNCHANGED <<driver, orders, transactions, userOrders, issued, ledger>>

\* lines 298-300: shipping.shippedAt
HandleShippedTakesStock(c) ==
  /\ calls[c].pc = "hsc_shipped"
  /\ orders' = [orders EXCEPT ![calls[c].orderId].shippedAt = TRUE]
  /\ products' = [p \in ProductIds |->
                    UpdateInventoryDoc(products[p], -calls[c].order.items[1].quantity)]
  /\ SetCall(c, AfterUpdateOrderStatus(calls[c], "ok"))
  /\ UNCHANGED <<driver, transactions, userOrders, issued, ledger>>

HandleShipped(c) ==
  /\ calls[c].pc = "hsc_shipped"
  /\ orders' = [orders EXCEPT ![calls[c].orderId].shippedAt = TRUE]
  /\ SetCall(c, AfterUpdateOrderStatus(calls[c], "ok"))
  /\ UNCHANGED <<driver, products, transactions, userOrders, issued, ledger>>

\* ------------------------------------------------- OrderService.cancelOrder
\* lines 313-328: findById, the shipped/delivered check, then updateOrderStatus
CancelOrderNoCheck(c, orderId) ==
  /\ CanStart(c)
  /\ LET call == [NewCall("cancelOrder") EXCEPT !.orderId = orderId,
                                                !.newStatus = "CANCELLED"]
     IN SetCall(c,
          IF orderId \notin OrderIds THEN Finished(call, "NotFound", FALSE)
          ELSE [call EXCEPT !.pc = "uos_find"])
  /\ issued' = issued + 1
  /\ UNCHANGED <<driver, products, orders, transactions, userOrders, ledger>>

CancelOrder(c, orderId) ==
  /\ CanStart(c)
  /\ LET call == [NewCall("cancelOrder") EXCEPT !.orderId = orderId,
                                                !.newStatus = "CANCELLED"]
     IN SetCall(c,
          IF orderId \notin OrderIds THEN Finished(call, "NotFound", FALSE)
          ELSE IF FindOrder(orderId).status \in {"SHIPPED", "DELIVERED"}
          THEN Finished(call, "BusinessLogicError", FALSE)
          ELSE [call EXCEPT !.pc = "uos_find"])
  /\ issued' = issued + 1
  /\ UNCHANGED <<driver, products, orders, transactions, userOrders, ledger>>

\* lines 330-335: cancelledAt
CancelOrderMark(c) ==
  /\ calls[c].pc = "cancel_mark"
  /\ orders' = [orders EXCEPT ![calls[c].orderId].cancelledAt = TRUE]
  /\ SetCall(c, Finished(calls[c], "ok", calls[c].applied))
  /\ UNCHANGED <<driver, products, transactions, userOrders, issued, ledger>>

\* ------------------------------------------------------------- the system
Next ==
  \/ \E c \in CallIds, p \in AnyProductId, q \in 0..MaxQty : AddStock(c, p, q)
  \/ \E c \in CallIds : AddStockLog(c)
  \/ \E c \in CallIds, p \in AnyProductId, q \in 0..MaxQty : RemoveStock(c, p, q)
  \/ \E c \in CallIds : RemoveStockUpdate(c)
  \/ \E c \in CallIds : RemoveStockLog(c)
  \/ \E c \in CallIds, cart \in Carts : CreateOrder(c, cart, NoPricing)
  \/ \E c \in CallIds : CreateOrderFind(c)
  \/ \E c \in CallIds : ReserveFind(c)
  \/ \E c \in CallIds : ReserveUpdate(c)
  \/ \E c \in CallIds : CreateOrderLog(c)
  \/ \E c \in CallIds : CreateOrderNumber(c)
  \/ \E c \in CallIds : CreateOrderInsert(c)
  \/ \E c \in CallIds : CreateOrderStatsFind(c)
  \/ \E c \in CallIds : CreateOrderStatsUpdate(c)
  \/ \E c \in CallIds, o \in AnyOrderId, s \in ORDER_STATUS :
       UpdateOrderStatus(c, o, s)
  \/ \E c \in CallIds : UpdateOrderStatusFind(c)
  \/ \E c \in CallIds : UpdateOrderStatusUpdate(c)
  \/ \E c \in CallIds : HandleCancelledRelease(c)
  \/ \E c \in CallIds : HandleCancelledLog(c)
  \/ \E c \in CallIds : HandleDeliveredCompleted(c)
  \/ \E c \in CallIds : HandleDeliveredSales(c)
  \/ \E c \in CallIds : HandleShipped(c)
  \/ \E c \in CallIds, o \in AnyOrderId : CancelOrder(c, o)
  \/ \E c \in CallIds : CancelOrderMark(c)

Spec == Init /\ [][Next]_vars

\* the orders on their own: order placement and the status workflow
OrderNext ==
  \/ \E c \in CallIds, cart \in Carts : CreateOrder(c, cart, NoPricing)
  \/ \E c \in CallIds : CreateOrderFind(c)
  \/ \E c \in CallIds : ReserveFind(c)
  \/ \E c \in CallIds : ReserveUpdate(c)
  \/ \E c \in CallIds : CreateOrderLog(c)
  \/ \E c \in CallIds : CreateOrderNumber(c)
  \/ \E c \in CallIds : CreateOrderInsert(c)
  \/ \E c \in CallIds : CreateOrderStatsFind(c)
  \/ \E c \in CallIds : CreateOrderStatsUpdate(c)
  \/ \E c \in CallIds, o \in AnyOrderId, s \in ORDER_STATUS :
       UpdateOrderStatus(c, o, s)
  \/ \E c \in CallIds : UpdateOrderStatusFind(c)
  \/ \E c \in CallIds : UpdateOrderStatusUpdate(c)
  \/ \E c \in CallIds : HandleCancelledRelease(c)
  \/ \E c \in CallIds : HandleCancelledLog(c)
  \/ \E c \in CallIds : HandleDeliveredCompleted(c)
  \/ \E c \in CallIds : HandleDeliveredSales(c)
  \/ \E c \in CallIds : HandleShipped(c)
  \/ \E c \in CallIds, o \in AnyOrderId : CancelOrder(c, o)
  \/ \E c \in CallIds : CancelOrderMark(c)

OrderSpec == Init /\ [][OrderNext]_vars

\* order placement on its own: concurrent createOrder calls only
PlaceNext ==
  \/ \E c \in CallIds, cart \in Carts : CreateOrder(c, cart, NoPricing)
  \/ \E c \in CallIds : CreateOrderFind(c)
  \/ \E c \in CallIds : ReserveFind(c)
  \/ \E c \in CallIds : ReserveUpdate(c)
  \/ \E c \in CallIds : CreateOrderLog(c)
  \/ \E c \in CallIds : CreateOrderNumber(c)
  \/ \E c \in CallIds : CreateOrderInsert(c)
  \/ \E c \in CallIds : CreateOrderStatsFind(c)
  \/ \E c \in CallIds : CreateOrderStatsUpdate(c)

PlaceSpec == Init /\ [][PlaceNext]_vars

\* the first call of the run, a createOrder, has returned
OrderPlaced ==
  /\ issued > 0
  /\ \A c \in CallIds : calls[c].op = "createOrder" => calls[c].pc = "done"

\* the workflow of one order: the order is placed by the first call, and the
\* calls that follow, concurrent with each other, are status updates and
\* cancellations
WorkflowNext ==
  \/ \E c \in CallIds, cart \in Carts :
       issued = 0 /\ CreateOrder(c, cart, NoPricing)
  \/ \E c \in CallIds : CreateOrderFind(c)
  \/ \E c \in CallIds : ReserveFind(c)
  \/ \E c \in CallIds : ReserveUpdate(c)
  \/ \E c \in CallIds : CreateOrderLog(c)
  \/ \E c \in CallIds : CreateOrderNumber(c)
  \/ \E c \in CallIds : CreateOrderInsert(c)
  \/ \E c \in CallIds : CreateOrderStatsFind(c)
  \/ \E c \in CallIds : CreateOrderStatsUpdate(c)
  \/ \E c \in CallIds, o \in AnyOrderId, s \in ORDER_STATUS :
       OrderPlaced /\ UpdateOrderStatus(c, o, s)
  \/ \E c \in CallIds : UpdateOrderStatusFind(c)
  \/ \E c \in CallIds : UpdateOrderStatusUpdate(c)
  \/ \E c \in CallIds : HandleCancelledRelease(c)
  \/ \E c \in CallIds : HandleCancelledLog(c)
  \/ \E c \in CallIds : HandleDeliveredCompleted(c)
  \/ \E c \in CallIds : HandleDeliveredSales(c)
  \/ \E c \in CallIds : HandleShipped(c)
  \/ \E c \in CallIds, o \in AnyOrderId : OrderPlaced /\ CancelOrder(c, o)
  \/ \E c \in CallIds : CancelOrderMark(c)

WorkflowSpec == Init /\ [][WorkflowNext]_vars

\* orders placed one after the other: a createOrder is called when none is
\* in flight
SequentialNext ==
  \/ \E c \in CallIds, cart \in Carts :
       InFlight = {} /\ CreateOrder(c, cart, NoPricing)
  \/ \E c \in CallIds : CreateOrderFind(c)
  \/ \E c \in CallIds : ReserveFind(c)
  \/ \E c \in CallIds : ReserveUpdate(c)
  \/ \E c \in CallIds : CreateOrderLog(c)
  \/ \E c \in CallIds : CreateOrderNumber(c)
  \/ \E c \in CallIds : CreateOrderInsert(c)
  \/ \E c \in CallIds : CreateOrderStatsFind(c)
  \/ \E c \in CallIds : CreateOrderStatsUpdate(c)

SequentialSpec == Init /\ [][SequentialNext]_vars

\* the pricing of an order: one createOrder, with prices, discounts and a
\* pricing of the caller's
PricingNext ==
  \/ \E c \in CallIds, cart \in PricedCarts, pricing \in Pricings :
       issued = 0 /\ CreateOrder(c, cart, pricing)
  \/ \E c \in CallIds : CreateOrderFind(c)
  \/ \E c \in CallIds : ReserveFind(c)
  \/ \E c \in CallIds : ReserveUpdate(c)
  \/ \E c \in CallIds : CreateOrderLog(c)
  \/ \E c \in CallIds : CreateOrderNumber(c)
  \/ \E c \in CallIds : CreateOrderInsert(c)
  \/ \E c \in CallIds : CreateOrderStatsFind(c)
  \/ \E c \in CallIds : CreateOrderStatsUpdate(c)

PricingSpec == Init /\ [][PricingNext]_vars

\* ------------------------------------------------- a store that fails a write
\* The insertOne of a transaction record, or the update of a release, is
\* refused by the store (the connection is lost, the write times out); each
\* action is the other outcome of the await of the step of the same pc.

\* createOrder line 89: logTransaction rethrows, and so does createOrder
CreateOrderLogFails(c) ==
  /\ calls[c].pc = "co_log"
  /\ SetCall(c, Finished(calls[c], "DatabaseError", calls[c].applied))
  /\ UNCHANGED <<driver, products, orders, transactions, userOrders, issued, ledger>>

\* handleStatusChange line 269: the throw of logTransaction ends the loop
\* in the catch of handleStatusChange, which only warns
HandleCancelledLogFails(c) ==
  /\ calls[c].pc = "hsc_log"
  /\ SetCall(c, AfterUpdateOrderStatus(calls[c], "ok"))
  /\ UNCHANGED <<driver, products, orders, transactions, userOrders, issued, ledger>>

\* handleStatusChange line 263: the throw of releaseInventory ends the loop
\* in the same catch
HandleCancelledReleaseFails(c) ==
  /\ calls[c].pc = "hsc_release"
  /\ SetCall(c, AfterUpdateOrderStatus(calls[c], "ok"))
  /\ UNCHANGED <<driver, products, orders, transactions, userOrders, issued, ledger>>

\* ProductService.logInventoryTransaction catches the failure and warns
AddStockLogFails(c) ==
  /\ calls[c].pc = "as_log"
  /\ SetCall(c, Finished(calls[c], "ok", calls[c].applied))
  /\ UNCHANGED <<driver, products, orders, transactions, userOrders, issued, ledger>>

RemoveStockLogFails(c) ==
  /\ calls[c].pc = "rs_log"
  /\ SetCall(c, Finished(calls[c], "ok", calls[c].applied))
  /\ UNCHANGED <<driver, products, orders, transactions, userOrders, issued, ledger>>

\* the services called one after the other on a store that may fail a
\* write; the run has one order at most, placed by its first call
FaultNext ==
  \/ \E c \in CallIds, p \in AnyProductId, q \in 0..MaxQty :
       InFlight = {} /\ AddStock(c, p, q)
  \/ \E c \in CallIds : AddStockLog(c)
  \/ \E c \in CallIds : AddStockLogFails(c)
  \/ \E c \in CallIds, p \in AnyProductId, q \in 0..MaxQty :
       InFlight = {} /\ RemoveStock(c, p, q)
  \/ \E c \in CallIds : RemoveStockUpdate(c)
  \/ \E c \in CallIds : RemoveStockLog(c)
  \/ \E c \in CallIds : RemoveStockLogFails(c)
  \/ \E c \in CallIds, cart \in Carts :
       issued = 0 /\ CreateOrder(c, cart, NoPricing)
  \/ \E c \in CallIds : CreateOrderFind(c)
  \/ \E c \in CallIds : ReserveFind(c)
  \/ \E c \in CallIds : ReserveUpdate(c)
  \/ \E c \in CallIds : CreateOrderLog(c)
  \/ \E c \in CallIds : CreateOrderLogFails(c)
  \/ \E c \in CallIds : CreateOrderNumber(c)
  \/ \E c \in CallIds : CreateOrderInsert(c)
  \/ \E c \in CallIds : CreateOrderStatsFind(c)
  \/ \E c \in CallIds : CreateOrderStatsUpdate(c)
  \/ \E c \in CallIds, o \in AnyOrderId, s \in ORDER_STATUS :
       InFlight = {} /\ UpdateOrderStatus(c, o, s)
  \/ \E c \in CallIds : UpdateOrderStatusFind(c)
  \/ \E c \in CallIds : UpdateOrderStatusUpdate(c)
  \/ \E c \in CallIds : HandleCancelledRelease(c)
  \/ \E c \in CallIds : HandleCancelledReleaseFails(c)
  \/ \E c \in CallIds : HandleCancelledLog(c)
  \/ \E c \in CallIds : HandleCancelledLogFails(c)
  \/ \E c \in CallIds : HandleDeliveredCompleted(c)
  \/ \E c \in CallIds : HandleDeliveredSales(c)
  \/ \E c \in CallIds : HandleShipped(c)
  \/ \E c \in CallIds, o \in AnyOrderId : InFlight = {} /\ CancelOrder(c, o)
  \/ \E c \in CallIds : CancelOrderMark(c)

FaultSpec == Init /\ [][FaultNext]_vars

\* updateData with a new price and nothing else
PriceUpdates == {[NoUpdate EXCEPT !.price = 200]}

\* the life of an order after it is placed: the first call of the run places
\* it, and the calls that follow, one after the other, are status updates,
\* cancellations, stock adjustments and changes of the product's price
SnapshotNext ==
  \/ \E c \in CallIds, cart \in Carts :
       issued = 0 /\ CreateOrder(c, cart, NoPricing)
  \/ \E c \in CallIds : CreateOrderFind(c)
  \/ \E c \in CallIds : ReserveFind(c)
  \/ \E c \in CallIds : ReserveUpdate(c)
  \/ \E c \in CallIds : CreateOrderLog(c)
  \/ \E c \in CallIds : CreateOrderNumber(c)
  \/ \E c \in CallIds : CreateOrderInsert(c)
  \/ \E c \in CallIds : CreateOrderStatsFind(c)
  \/ \E c \in CallIds : CreateOrderStatsUpdate(c)
  \/ \E c \in CallIds, o \in AnyOrderId, s \in ORDER_STATUS :
       InFlight = {} /\ UpdateOrderStatus(c, o, s)
  \/ \E c \in CallIds : UpdateOrderStatusFind(c)
  \/ \E c \in CallIds : UpdateOrderStatusUpdate(c)
  \/ \E c \in CallIds : HandleCancelledRelease(c)
  \/ \E c \in CallIds : HandleCancelledLog(c)
  \/ \E c \in CallIds : HandleDeliveredCompleted(c)
  \/ \E c \in CallIds : HandleDeliveredSales(c)
  \/ \E c \in CallIds : HandleShipped(c)
  \/ \E c \in CallIds, o \in AnyOrderId : InFlight = {} /\ CancelOrder(c, o)
  \/ \E c \in CallIds : CancelOrderMark(c)
  \/ \E c \in CallIds, p \in AnyProductId, q \in 0..MaxQty :
       InFlight = {} /\ AddStock(c, p, q)
  \/ \E c \in CallIds : AddStockLog(c)
  \/ \E c \in CallIds, p \in AnyProductId, q \in 0..MaxQty :
       InFlight = {} /\ RemoveStock(c, p, q)
  \/ \E c \in CallIds : RemoveStockUpdate(c)
  \/ \E c \in CallIds : RemoveStockLog(c)
  \/ \E c \in CallIds, p \in AnyProductId, updateData \in PriceUpdates :
       InFlight = {} /\ UpdateProduct(c, p, updateData)
  \/ \E c \in CallIds : UpdateProductUpdate(c)

SnapshotSpec == Init /\ [][SnapshotNext]_vars

\* removeStock racing the ledger's reserve and other removeStock calls
RemoveNext ==
  \/ \E c \in CallIds, p \in AnyProductId, q \in 0..MaxQty : RemoveStock(c, p, q)
  \/ \E c \in CallIds : RemoveStockUpdate(c)
  \/ \E c \in CallIds : RemoveStockLog(c)
  \/ \E c \in CallIds, p \in AnyProductId, q \in Quantities : ReserveInventory(c, p, q)
  \/ \E c \in CallIds : ReserveUpdate(c)

RemoveSpec == Init /\ [][RemoveNext]_vars

\* updateData with an inventory object {quantity} and nothing else
InventoryUpdates == {[NoUpdate EXCEPT !.quantity = q] : q \in 0..MaxStock}

\* updateProduct with an inventory object, racing the ledger's reserve and
\* release
InventoryNext ==
  \/ \E c \in CallIds, p \in AnyProductId, updateData \in InventoryUpdates :
       UpdateProduct(c, p, updateData)
  \/ \E c \in CallIds : UpdateProductUpdate(c)
  \/ \E c \in CallIds, p \in AnyProductId, q \in Quantities : ReserveInventory(c, p, q)
  \/ \E c \in CallIds : ReserveUpdate(c)
  \/ \E c \in CallIds, p \in AnyProductId, q \in Quantities : ReleaseInventory(c, p, q)

InventorySpec == Init /\ [][InventoryNext]_vars

\* the statuses that are set by hand and never derived from the stock
ExternalStatuses == {"DISCONTINUED", "COMING_SOON"}

\* updateData with a status set by hand and nothing else
StatusUpdates == {[NoUpdate EXCEPT !.status = s] : s \in ExternalStatuses}

\* the ledger operations and an operator who sets a product's status
StatusNext ==
  \/ LedgerNext
  \/ \E c \in CallIds, p \in AnyProductId, updateData \in StatusUpdates :
       UpdateProduct(c, p, updateData)
  \/ \E c \in CallIds : UpdateProductUpdate(c)

StatusSpec == Init /\ [][StatusNext]_vars

\* ================================================================ properties
\* the step of client c that returns from a directly called ledger operation
Returns(c, op) ==
  /\ calls'[c].op = op
  /\ calls'[c].pc = "done"
  /\ \/ calls[c].pc = "reserve_update"
     \/ issued' # issued

\* C1: in every reachable state of the ledger operations (adjust, reserve,
\* release, in any interleaving) every product has
\* available = quantity - reserved.
C1_AvailableIsQuantityMinusReserved ==
  \A p \in ProductIds :
    products[p].available = products[p].quantity - products[p].reserved

\* an adjust and a reserve have been applied, and a release after them
C1_Witness ==
  \E p \in ProductIds :
    /\ ledger[p].adjusted # 0
    /\ ledger[p].reserved > 0
    /\ products[p].reserved < ledger[p].reserved

\* C2: the conditional update of reserveInventory modifies the product only
\* when the requested quantity is at most the product's available at that
\* moment, and it never leaves available below zero.
C2_ReserveNeverOversteps ==
  [][\A c \in CallIds :
       (calls[c].pc = "reserve_update" /\ calls'[c].pc # "reserve_update"
          /\ products' # products)
       => /\ calls[c].quantity <= products[calls[c].productId].available
          /\ products'[calls[c].productId].available >= 0]_vars

\* a reserve that passed its findById check was refused by the update,
\* because the stock had gone in between
C2_Witness ==
  \E c \in CallIds :
    /\ calls[c].op = "reserveInventory"
    /\ calls[c].pc = "done"
    /\ ~calls[c].applied
    /\ calls[c].result \in {"ReserveFailed", "TypeError"}
    /\ products[calls[c].productId].available < calls[c].quantity

\* C3: with only reserveInventory calls running (quantity is then the
\* available at the start), the quantities of the calls whose update was
\* applied sum to at most that available, and no call whose update was not
\* applied returns success.
C3_NoOversell ==
  /\ \A p \in ProductIds : ledger[p].reserved <= products[p].quantity
  /\ \A c \in CallIds :
       (calls[c].op = "reserveInventory" /\ calls[c].pc = "done"
          /\ calls[c].result = "ok") => calls[c].applied

\* the stock is exhausted by applied reserves and the loser of the race
\* has failed at its update
C3_Witness ==
  \E p \in ProductIds, c \in CallIds :
    /\ products[p].quantity > 0
    /\ ledger[p].reserved = products[p].quantity
    /\ calls[c].op = "reserveInventory"
    /\ calls[c].pc = "done"
    /\ calls[c].productId = p
    /\ ~calls[c].applied
    /\ calls[c].result \in {"ReserveFailed", "TypeError"}

\* C4: a reserveInventory whose conditional update has changed the counters
\* returns success (an error is reported only with the counters untouched).
C4_ErrorMeansUnchanged ==
  \A c \in CallIds :
    (calls[c].op = "reserveInventory" /\ calls[c].pc = "done" /\ calls[c].applied)
    => calls[c].result = "ok"

\* C5: in every reachable state of the system driven by createOrder,
\* updateOrderStatus, cancelOrder, addStock and removeStock every product
\* has reserved >= 0.
C5_ReservedNeverNegative ==
  \A p \in ProductIds : products[p].reserved >= 0

\* C6: an applied reserve(q) changes exactly reserved by +q and available by
\* -q, an applied release(q) exactly reserved by -q and available by +q, and
\* releasing what was just reserved gives back the document.
C6_ReserveReleaseDeltas ==
  [][/\ \A c \in CallIds :
          (Returns(c, "reserveInventory") /\ calls'[c].applied)
          => products'[calls'[c].productId] =
               [products[calls'[c].productId] EXCEPT
                  !.reserved = @ + calls'[c].quantity,
                  !.available = @ - calls'[c].quantity]
     /\ \A c \in CallIds :
          (Returns(c, "releaseInventory") /\ calls'[c].applied)
          => products'[calls'[c].productId] =
               [products[calls'[c].productId] EXCEPT
                  !.reserved = @ - calls'[c].quantity,
                  !.available = @ + calls'[c].quantity]
     /\ \A p \in ProductIds, q \in Quantities :
          ReleaseDoc(ReserveDoc(products[p], q), q) = products[p]]_vars

\* a release has given back all that the reserves had taken
C6_Witness ==
  \E c \in CallIds :
    /\ calls[c].op = "releaseInventory"
    /\ calls[c].pc = "done"
    /\ calls[c].applied
    /\ ledger[calls[c].productId].reserved = calls[c].quantity
    /\ ledger[calls[c].productId].adjusted = 0
    /\ products[calls[c].productId].reserved = 0
    /\ products[calls[c].productId].available = products[calls[c].productId].quantity

\* C7: updateInventory(productId, delta) is one step that sets quantity to
\* quantity + delta, available to the new quantity minus reserved and status
\* to OUT_OF_STOCK iff the new available <= 0 (else AVAILABLE), and changes
\* nothing else; no delta is lost: the quantity moves by exactly the sum of
\* the applied deltas.
C7_AdjustIsAtomic ==
  [][/\ \A c \in CallIds :
          (Returns(c, "updateInventory") /\ calls'[c].applied)
          => LET old == products[calls'[c].productId]
                 delta == calls'[c].quantity
             IN products'[calls'[c].productId] =
                  [old EXCEPT
                     !.quantity = old.quantity + delta,
                     !.available = old.quantity + delta - old.reserved,
                     !.status = IF old.quantity + delta - old.reserved <= 0
                                THEN "OUT_OF_STOCK" ELSE "AVAILABLE"]
     /\ \A p \in ProductIds :
          products'[p].quantity - ledger'[p].adjusted
            = products[p].quantity - ledger[p].adjusted]_vars

\* an adjust on a product with reserved units has left available at or
\* below zero
C7_Witness ==
  \E c \in CallIds :
    /\ calls[c].op = "updateInventory"
    /\ calls[c].pc = "done"
    /\ calls[c].applied
    /\ products[calls[c].productId].reserved > 0
    /\ products[calls[c].productId].available <= 0
    /\ products[calls[c].productId].status = "OUT_OF_STOCK"

\* C8: an addStock on an id that resolves to no product fails with NotFound
\* and appends no transaction record (and changes no product).
C8_AddStockMissingProduct ==
  /\ \A c \in CallIds :
       (calls[c].op = "addStock" /\ calls[c].productId \notin ProductIds
          /\ calls[c].quantity > 0)
       => (calls[c].pc = "done" /\ calls[c].result = "NotFound")
  /\ \A t \in BagToSet(transactions) : t.productId \in ProductIds

\* C9: for every product document reachable through adjust, reserve and
\* release and every n, adjust(+n) followed by adjust(-n) restores the
\* quantity, the available and the status.
C9_AdjustRoundTrip ==
  \A p \in ProductIds, n \in Quantities :
    LET back == UpdateInventoryDoc(UpdateInventoryDoc(products[p], n), -n)
    IN /\ back.quantity = products[p].quantity
       /\ back.available = products[p].available
       /\ back.status = products[p].status

\* C10: a product whose status is not one of the statuses set by hand has
\* status OUT_OF_STOCK exactly when available <= 0 and AVAILABLE otherwise,
\* after reserve and release as after adjust, and an adjust leaves a status
\* set by hand as it is.
C10_StatusFollowsAvailable ==
  /\ [](\A p \in ProductIds :
          products[p].status \notin ExternalStatuses
          => products[p].status = IF products[p].available <= 0
                                  THEN "OUT_OF_STOCK" ELSE "AVAILABLE")
  /\ [][\A c \in CallIds :
          (Returns(c, "updateInventory") /\ calls'[c].applied
             /\ products[calls'[c].productId].status \in ExternalStatuses)
          => products'[calls'[c].productId].status
               = products[calls'[c].productId].status]_vars

\* C11: in every reachable state of the system every product has
\* reserved <= quantity, and available >= 0 whenever its status is not
\* OUT_OF_STOCK.
C11_CountersInRange ==
  \A p \in ProductIds :
    /\ products[p].reserved <= products[p].quantity
    /\ products[p].status # "OUT_OF_STOCK" => products[p].available >= 0

\* the step is one of client c's own call
Steps(c) ==
  IF calls[c].pc \in {"idle", "done"}
  THEN issued' # issued /\ calls'[c].pc # "idle"
  ELSE calls'[c] # calls[c]

\* the edges of the order workflow as the transition table lists them
TransitionTable ==
  {<<"PENDING", "CONFIRMED">>, <<"PENDING", "CANCELLED">>,
   <<"CONFIRMED", "PROCESSING">>, <<"CONFIRMED", "CANCELLED">>,
   <<"PROCESSING", "SHIPPED">>, <<"PROCESSING", "CANCELLED">>,
   <<"SHIPPED", "DELIVERED">>, <<"SHIPPED", "CANCELLED">>,
   <<"DELIVERED", "REFUNDED">>}

C13_TerminalIsFinal ==
  [][\A o \in OrderIds :
       orders[o].status \in {"CANCELLED", "REFUNDED"}
       => orders'[o].status = orders[o].status]_vars

\* the statuses `path` occur in the history in that order (others may lie
\* between them)
PassesThrough(history, path) ==
  \E pos \in [1..Len(path) -> 1..Len(history)] :
    /\ \A i \in 1..Len(path) : history[pos[i]] = path[i]
    /\ \A i \in 1..(Len(path) - 1) : pos[i] < pos[i + 1]

C15_HistoryFollowsStatus ==
  /\ [](\A o \in OrderIds :
          /\ Len(orders[o].statusHistory) >= 1
          /\ orders[o].statusHistory[Len(orders[o].statusHistory)]
               = orders[o].status)
  /\ [][\A o \in OrderIds :
          LET written == \E c \in CallIds :
                           /\ calls[c].pc = "uos_update"
                           /\ calls[c].orderId = o
                           /\ calls'[c].pc # "uos_update"
          IN IF written
             THEN /\ orders'[o].statusHistory
                       = Append(orders[o].statusHistory, orders'[o].status)
                  /\ \E c \in CallIds : /\ calls[c].pc = "uos_update"
                                        /\ calls'[c].pc # "uos_update"
                                        /\ orders'[o].status = calls[c].newStatus
             ELSE /\ orders'[o].statusHistory = orders[o].statusHistory
                  /\ orders'[o].status = orders[o].status]_vars

\* an order has gone through two transitions
C15_Witness ==
  \E o \in OrderIds :
    /\ Len(orders[o].statusHistory) = 3
    /\ orders[o].status = "PROCESSING"

\* C16: a createOrder persists its order with status PENDING and a
\* statusHistory of the single entry PENDING; it gets to persist it only
\* after one reserve step per line item, in cart order, each of which grows
\* the item's product's reserved by the item quantity, drops its available by
\* it and leaves its quantity (and everything else) as it was; and it
\* returns success only after persisting.
C16_CreateOrderReservesAndPersists ==
  [][\A c \in CallIds :
       (Steps(c) /\ calls'[c].op = "createOrder") =>
         /\ calls'[c].pc = "co_log"
            => LET item == calls[c].items[calls[c].idx]
               IN /\ calls[c].pc = "reserve_update"
                  /\ calls'[c].idx = calls[c].idx
                  /\ products' =
                       [products EXCEPT
                          ![item.productId] =
                             [@ EXCEPT !.reserved = @ + item.quantity,
                                       !.available = @ - item.quantity]]
         /\ calls'[c].pc # "co_log" /\ calls'[c].pc # "done"
            => products' = products
         /\ calls[c].pc \notin {"idle", "done"} /\ calls'[c].pc # "done"
            /\ calls'[c].idx # calls[c].idx
            => /\ calls[c].pc = "co_log"
               /\ calls'[c].idx = calls[c].idx + 1
         /\ calls'[c].pc = "co_number"
            => /\ calls[c].pc = "co_log"
               /\ calls[c].idx = Len(calls[c].items)
         /\ calls'[c].pc = "co_create" => calls[c].pc = "co_number"
         /\ calls'[c].pc = "co_stats_find"
            => /\ calls[c].pc = "co_create"
               /\ Len(orders') = Len(orders) + 1
               /\ orders'[Len(orders')].status = "PENDING"
               /\ orders'[Len(orders')].statusHistory = <<"PENDING">>
               /\ Len(orders'[Len(orders')].items) = Len(calls[c].items)
               /\ \A i \in 1..Len(calls[c].items) :
                    /\ orders'[Len(orders')].items[i].productId
                         = calls[c].items[i].productId
                    /\ orders'[Len(orders')].items[i].quantity
                         = calls[c].items[i].quantity
               /\ \A o \in OrderIds : orders'[o] = orders[o]
         /\ calls'[c].pc = "done" /\ calls'[c].result = "ok"
            => calls[c].pc = "co_stats_update"
         /\ calls'[c].pc = "co_stats_update" => calls[c].pc = "co_stats_find"]_vars

\* a createOrder has returned an order of two line items, with the stock of
\* both reserved
C16_Witness ==
  \E c \in CallIds, o \in OrderIds :
    /\ calls[c].op = "createOrder"
    /\ calls[c].pc = "done"
    /\ calls[c].result = "ok"
    /\ orders[o].status = "PENDING"
    /\ Len(orders[o].items) = 2
    /\ products[orders[o].items[1].productId].reserved
         = orders[o].items[1].quantity + orders[o].items[2].quantity

C18_CancelledHasCancelledAt ==
  InFlight = {} =>
    \A o \in OrderIds : orders[o].status = "CANCELLED" => orders[o].cancelledAt

DeliveredOrders ==
  {o \in OrderIds :
     \E i \in 1..Len(orders[o].statusHistory) :
       orders[o].statusHistory[i] = "DELIVERED"}

\* C21: in every state with no call in flight the user's totalOrders is the
\* number of the user's orders that have been delivered: an order counts
\* from its transition to DELIVERED on, and an order that was created (and
\* perhaps cancelled) without being delivered does not count.
C21_StatsAccrueOnDelivery ==
  InFlight = {} => userOrders = Cardinality(DeliveredOrders)


\* the call that the step of client c belongs to
StepCall(c) == IF calls[c].pc \in {"idle", "done"} THEN calls'[c] ELSE calls[c]

C23_ReservationAllOrNothing ==
  (driver = "modifyResult" /\ InFlight = {} /\ orders = <<>>)
  => \A p \in ProductIds :
       /\ products[p].reserved = 0
       /\ products[p].available = products[p].quantity


\* the units of product p in a list of line items
RECURSIVE UnitsOf(_, _)
UnitsOf(items, p) ==
  IF items = <<>> THEN 0
  ELSE (IF Head(items).productId = p THEN Head(items).quantity ELSE 0)
         + UnitsOf(Tail(items), p)

\* the units of product p in the first n orders that are open (neither
\* CANCELLED nor REFUNDED)
RECURSIVE OpenUnits(_, _)
OpenUnits(n, p) ==
  IF n = 0 THEN 0
  ELSE (IF orders[n].status \in {"CANCELLED", "REFUNDED"} THEN 0
        ELSE UnitsOf(orders[n].items, p))
         + OpenUnits(n - 1, p)

\* C24: in every state with no call in flight the reserved of each product
\* (0 at the start) is the sum of the quantities of its line items over the
\* persisted orders that are neither CANCELLED nor REFUNDED.
C24_ReservedMatchesOpenOrders ==
  InFlight = {} =>
    \A p \in ProductIds : products[p].reserved = OpenUnits(Len(orders), p)


\* C25: every persisted order has
\* pricing.total = pricing.subtotal - pricing.discount + pricing.tax
\* + pricing.shipping, its pricing.subtotal is the sum of the subtotals of
\* its line items, and the subtotal of each line item is
\* (price - discount) * quantity of that item as stored.
C25_TotalIsSumOfParts ==
  \A o \in OrderIds :
    LET items == orders[o].items
        pricing == orders[o].pricing
    IN /\ pricing.total
            = pricing.subtotal - pricing.discount + pricing.tax + pricing.shipping
       /\ Len(items) \in {1, 2}
       /\ pricing.subtotal = IF Len(items) = 1 THEN items[1].subtotal
                             ELSE items[1].subtotal + items[2].subtotal
       /\ \A i \in 1..Len(items) :
            items[i].subtotal
              = (items[i].price - items[i].discount) * items[i].quantity

\* an order of two line items is persisted, one at the caller's price with
\* a discount, with a discount, a tax and a shipping cost on the order
C25_Witness ==
  \E o \in OrderIds :
    /\ Len(orders[o].items) = 2
    /\ orders[o].items[1].price # ProductPrice
    /\ orders[o].items[1].discount > 0
    /\ orders[o].items[2].price = ProductPrice
    /\ orders[o].pricing.discount > 0
    /\ orders[o].pricing.tax > 0
    /\ orders[o].pricing.shipping > 0
    /\ orders[o].pricing.total = 420


\* C26: the order that a createOrder persists has the caller's tax as its
\* pricing.tax whenever the caller gave one (0 included) and a tenth of its
\* subtotal only when the caller gave none, and each of its line items has
\* the caller's price whenever the caller gave one (0 included) and the
\* product's price only otherwise.
C26_SuppliedTaxAndPriceAreUsed ==
  [][\A c \in CallIds :
       (calls[c].pc = "co_create" /\ calls'[c].pc = "co_stats_find")
       => LET order == orders'[Len(orders')]
          IN /\ order.pricing.tax
                  = IF calls[c].pricing.tax # Absent THEN calls[c].pricing.tax
                    ELSE order.pricing.subtotal \div 10
             /\ \A i \in 1..Len(calls[c].items) :
                  order.items[i].price
                    = IF calls[c].items[i].price # Absent
                      THEN calls[c].items[i].price
                      ELSE products[calls[c].items[i].productId].price]_vars


C28_OrderNumbersUnique ==
  /\ \A c, d \in CallIds :
       (c # d /\ calls[c].pc = "co_create" /\ calls[d].pc = "co_create")
       => calls[c].orderNumber # calls[d].orderNumber
  /\ \A c \in CallIds :
       calls[c].pc = "co_create"
       => \A o \in OrderIds : orders[o].orderNumber # calls[c].orderNumber
  /\ \A c \in CallIds :
       (calls[c].op = "createOrder" /\ calls[c].pc = "done")
       => calls[c].result # "DuplicateError"


\* C29: on a store that may refuse the insert of a transaction record, the
\* step of a call that has a record to append never ends the call with an
\* error and never stops it short: createOrder goes on to its next line item
\* or to the order number, a cancellation with line items left goes on to
\* release the next one, and addStock and removeStock return success with
\* the stock as their update left it.
C29_LogFailureIsHarmless ==
  [][\A c \in CallIds :
       Steps(c) =>
         /\ calls[c].pc = "co_log"
            => /\ calls'[c].pc \in {"co_find", "co_number"}
               /\ calls'[c].pc = "co_find" <=> calls[c].idx < Len(calls[c].items)
         /\ calls[c].pc = "hsc_log"
            => IF calls[c].idx < Len(calls[c].order.items)
               THEN calls'[c].pc = "hsc_release" /\ calls'[c].idx = calls[c].idx + 1
               ELSE calls'[c].pc \in {"done", "cancel_mark"}
         /\ calls[c].pc \in {"as_log", "rs_log"}
            => /\ calls'[c].pc = "done"
               /\ calls'[c].result = "ok"
               /\ products' = products]_vars


\* C30: on a store that may refuse a write, an updateOrderStatus to
\* CANCELLED returns (or hands back to cancelOrder) only from the record of
\* its last line item, never from a release and never with line items left;
\* and in no state with no call in flight is the order of the run CANCELLED
\* while units of it are still reserved.
C30_NoSilentSideEffectFailure ==
  /\ [][\A c \in CallIds :
          (Steps(c) /\ calls[c].pc \in {"hsc_release", "hsc_log"}
             /\ calls'[c].pc \in {"done", "cancel_mark"})
          => /\ calls[c].pc = "hsc_log"
             /\ calls[c].idx = Len(calls[c].order.items)]_vars
  /\ []((InFlight = {} /\ Len(orders) = 1 /\ orders[1].status = "CANCELLED")
          => \A p \in ProductIds : products[p].reserved = 0)


\* C31: no step changes the line items or the pricing of a persisted order:
\* status updates, cancellations, stock adjustments and changes of the
\* product's price leave them as createOrder wrote them.
C31_OrderSnapshotIsFrozen ==
  [][\A o \in OrderIds :
       /\ orders'[o].items = orders[o].items
       /\ orders'[o].pricing = orders[o].pricing]_vars

\* an order placed at the product's first price has been cancelled, and the
\* product's price has changed since
C31_Witness ==
  \E o \in OrderIds :
    /\ orders[o].status = "CANCELLED"
    /\ orders[o].items[1].price = ProductPrice
    /\ products[orders[o].items[1].productId].price # ProductPrice
    /\ orders[o].pricing.subtotal = SumSubtotals(orders[o].items)


ReturnsOf(o) ==
  [r \in {t \in BagToSet(transactions) : t.type = "RETURN" /\ t.orderId = o}
     |-> CopiesIn(r, transactions)]

\* C33: over the life of an order no more releases are made for it than it
\* has line items (each release is followed by its RETURN record), however
\* the cancellations of the order interleave, and no product's available
\* rises above its quantity.
C33_ReleasedAtMostOnce ==
  /\ \A o \in OrderIds : BagCardinality(ReturnsOf(o)) <= Len(orders[o].items)
  /\ \A p \in ProductIds : products[p].available <= products[p].quantity


\* C34: in every reachable state each pair of consecutive entries of an
\* order's statusHistory is an edge of the transition table, and the history
\* has 6 entries at most (the longest path of the table, PENDING to
\* REFUNDED), however the status updates of the order interleave.
C34_HistoryIsAPathOfTheTable ==
  \A o \in OrderIds :
    /\ \A i \in 1..(Len(orders[o].statusHistory) - 1) :
         <<orders[o].statusHistory[i], orders[o].statusHistory[i + 1]>>
           \in TransitionTable
    /\ Len(orders[o].statusHistory) <= 6


\* C35: a removeStock of more than the product's available fails with an
\* insufficient-stock error in a step that changes no product and no log,
\* and in every reachable state of removeStock and reserveInventory calls,
\* in any interleaving, every product has available >= 0 and
\* quantity >= reserved.
C35_RemoveStockNeverOversteps ==
  /\ [][\A c \in CallIds, p \in ProductIds, q \in 1..MaxQty :
          (calls[c].pc \in {"idle", "done"} /\ q > products[p].available
             /\ RemoveStock(c, p, q))
          => /\ calls'[c].pc = "done"
             /\ calls'[c].result = "InsufficientStock"
             /\ UNCHANGED <<products, transactions>>]_vars
  /\ [](\A p \in ProductIds :
          /\ products[p].available >= 0
          /\ products[p].quantity >= products[p].reserved)


\* C36: the write of an updateProduct that carries an inventory object
\* leaves the product's reserved as it was and leaves
\* available = quantity - reserved, whatever quantity was supplied (0
\* included) and whatever reserve or release was applied between the call's
\* read of the product and its write.
C36_UpdateProductKeepsLedger ==
  [][\A c \in CallIds :
       (calls[c].pc = "up_update" /\ calls'[c].pc = "done"
          /\ calls[c].update.quantity # Absent)
       => LET p == calls[c].productId
          IN /\ products'[p].reserved = products[p].reserved
             /\ products'[p].available
                  = products'[p].quantity - products'[p].reserved]_vars

====
